---- MODULE Spec2Model ----
(***************************************************************************)
(* Model of dair_pll's trajectory dataset lifecycle:                       *)
(*   - TrajectorySliceDataset / TrajectorySet (dataset_management.py),     *)
(*   - SystemDataManager construction, generation, split computation,      *)
(*   - the numeric file store helpers of file_utils.py.                    *)
(*                                                                         *)
(* Python lists are modelled as sequences; indices in the Python code are  *)
(* 0-based and are shifted by one where a sequence is accessed.  A         *)
(* trajectory (a T x n tensor) is a sequence of T states; a state is a     *)
(* pair <<origin, t>> so that windows cut from a trajectory can be told    *)
(* apart.                                                                  *)
(***************************************************************************)
EXTENDS Integers, Sequences, FiniteSets, TLC

(***************************************************************************)
(* Bounds of the model.                                                    *)
(***************************************************************************)
\* longest trajectory handed to a stand-alone slice dataset
MaxLen == 4
\* largest t_skip of a stand-alone slice dataset
MaxSkip == 2
\* largest t_prediction of a stand-alone slice dataset
MaxPred == 2
\* number of add_sliced_trajectory calls made on a stand-alone slice dataset
MaxAdds == 2

\* most trajectory files a storage or import directory holds
MaxFiles == 3
\* largest population size n_pop of a generation configuration
MaxPop == 3
\* largest dynamic_updates_from threshold
MaxDyn == 2
\* denominator of the split fractions: a fraction is k / FracDen, k in 0..FracDen
FracDen == 4
\* most trajectories on disk when the split fractions range over all of [0,1]
MaxSplitN == 4
\* number of times the program is run on the same storage
MaxRuns == 2
\* number of get_trajectory_split calls the user makes on a constructed manager
MaxCalls == 2

(***************************************************************************)
(* Program constants.                                                      *)
(***************************************************************************)
\* n_set = 30, the nominal batch size of SystemDataManager.generate
NominalBatch == 30

VARIABLES
    dataset,     \* a stand-alone TrajectorySliceDataset object
    appended,    \* the trajectories handed to dataset.add_sliced_trajectory, in call order
    slicer_err,  \* outcome of the last add_sliced_trajectory call: "none" or "AssertionError"
    config,      \* the DataConfig record the manager is constructed with
    storage,     \* the storage's data directory: file index -> trajectory
    import_dir,  \* the import source directory: file index -> trajectory
    storage0,    \* the content of the data directory when the current construction started
    pc,          \* position of the manager's control flow
    error,       \* the exception that left the manager's code, "none" if none
    n_on_disk,   \* self.n_on_disk (None while the attribute is not set)
    train_set,   \* self.train_set (None while the attribute is not set)
    valid_set,   \* self.valid_set
    test_set,    \* self.test_set
    split_idx,   \* the file index each trajectory of each set was loaded from
    gen,         \* locals of generate: n_generated, n_set, traj_i, i
    wait_n,      \* local n_on_disk of the waiting loop of __init__
    writer,      \* the external writer: its position and the index it picked
    path_log,    \* the acquisition paths entered so far, in order, over all runs
    split_log    \* one record per get_trajectory_split call of the current manager: the
                 \* branch taken, the on-disk count it read, the file indices it loaded

slicerVars == <<dataset, appended, slicer_err>>

diskVars == <<storage, import_dir>>

\* the cached sets, with the file indices they were loaded from
cachedVars == <<train_set, valid_set, test_set, split_idx>>

setVars == <<train_set, valid_set, test_set, split_idx, split_log>>

managerVars == <<config, storage0, pc, error, n_on_disk, train_set, valid_set, test_set,
                 split_idx, gen, wait_n, path_log, split_log>>

vars == <<dataset, appended, slicer_err, config, storage, import_dir, storage0, pc, error,
          n_on_disk, train_set, valid_set, test_set, split_idx, gen, wait_n, writer,
          path_log, split_log>>

(***************************************************************************)
(* Python helpers.                                                         *)
(***************************************************************************)
Min(a, b) == IF a <= b THEN a ELSE b

\* Python's normalisation of one slice bound x against a list of length n.
SliceBound(x, n) ==
    IF x < 0 THEN (IF x + n < 0 THEN 0 ELSE x + n)
    ELSE IF x > n THEN n ELSE x

\* s[a:b] of a Python list (0-based a, b; negative and out-of-range bounds allowed).
PySlice(s, a, b) ==
    LET lo == SliceBound(a, Len(s))
        hi == SliceBound(b, Len(s))
    IN  IF lo >= hi THEN << >> ELSE SubSeq(s, lo + 1, hi)

\* Optional[...] values: None, or a value v held as <<v>>.
None == << >>

Some(v) == <<v>>

\* mutant: the test is always true (an else in place of the elif)
TruthyAlways(opt) == TRUE

\* Python's truth value of an Optional[int]: None and 0 are false
Truthy(opt) == opt # None /\ opt[1] # 0

\* round(n * k / FracDen) for an int n and the float k / FracDen: Python rounds a tie
\* to the even neighbour
PyRound(n, k) ==
    LET q == (n * k) \div FracDen
        r == (n * k) % FracDen
    IN  IF 2 * r < FracDen THEN q
        ELSE IF 2 * r > FracDen THEN q + 1
        ELSE IF q % 2 = 0 THEN q ELSE q + 1

\* all orders of the elements of the finite set S, as sequences
RECURSIVE PermSeqs(_)
PermSeqs(S) ==
    IF S = {} THEN {<< >>}
    ELSE UNION {{<<x>> \o p : p \in PermSeqs(S \ {x})} : x \in S}

\* A trajectory of len states produced by origin.
Traj(origin, len) == [t \in 1..len |-> <<origin, t>>]

(***************************************************************************)
(* TrajectorySliceDataset                                                  *)
(***************************************************************************)
\* the assertion of TrajectorySliceDataset.__init__
SliceDatasetInitOK(t_skip, t_history) == t_skip + 1 >= t_history

\* the object right after the attribute assignments of __init__
EmptySliceDataset(t_skip, t_history, t_prediction) ==
    [t_skip |-> t_skip, t_history |-> t_history, t_prediction |-> t_prediction,
     in_slices |-> << >>, out_slices |-> << >>]

\* mutant: the assertion asks for at least one anchor (first < last)
AddSlicedOKStrict(ds, traj) == ds.t_skip < Len(traj) - ds.t_prediction

\* the assertion of add_sliced_trajectory: first <= last
AddSlicedOK(ds, traj) == ds.t_skip <= Len(traj) - ds.t_prediction

\* mutant: the loop runs one anchor too far (range(first, last + 1))
AddSlicedTrajectoryOffByOne(ds, traj) ==
    LET first == ds.t_skip
        last == Len(traj) - ds.t_prediction + 1
        n == IF last > first THEN last - first ELSE 0
    IN  [ds EXCEPT
           !.in_slices = @ \o [k \in 1..n |->
               PySlice(traj, (first + k - 1) + 1 - ds.t_history, (first + k - 1) + 1)],
           !.out_slices = @ \o [k \in 1..n |->
               PySlice(traj, (first + k - 1) + 1, (first + k - 1) + 1 + ds.t_prediction)]]

\* mutant: the slices of the new trajectory are put in front of the lists
AddSlicedTrajectoryPrepend(ds, traj) ==
    LET first == ds.t_skip
        last == Len(traj) - ds.t_prediction
        n == IF last > first THEN last - first ELSE 0
    IN  [ds EXCEPT
           !.in_slices = [k \in 1..n |->
               PySlice(traj, (first + k - 1) + 1 - ds.t_history, (first + k - 1) + 1)] \o @,
           !.out_slices = [k \in 1..n |->
               PySlice(traj, (first + k - 1) + 1, (first + k - 1) + 1 + ds.t_prediction)] \o @]

\* the loop of add_sliced_trajectory: for i in range(first, last), i = first + k - 1
AddSlicedTrajectory(ds, traj) ==
    LET first == ds.t_skip
        last == Len(traj) - ds.t_prediction
        n == IF last > first THEN last - first ELSE 0
    IN  [ds EXCEPT
           !.in_slices = @ \o [k \in 1..n |->
               PySlice(traj, (first + k - 1) + 1 - ds.t_history, (first + k - 1) + 1)],
           !.out_slices = @ \o [k \in 1..n |->
               PySlice(traj, (first + k - 1) + 1, (first + k - 1) + 1 + ds.t_prediction)]]

\* ds.__len__()
SliceLen(ds) == Len(ds.in_slices)

\* ds.__getitem__(idx), idx 0-based
SliceGetItem(ds, idx) == <<ds.in_slices[idx + 1], ds.out_slices[idx + 1]>>

(***************************************************************************)
(* Numeric file store (file_utils.py).  A directory is a function from the *)
(* integer names of its trajectory files to their contents.                *)
(***************************************************************************)
\* len(glob(directory/[0-9]*.pt)): the number of numerically named files, not max index + 1
GetNumericFileCount(directory) == Cardinality(DOMAIN directory)

\* get_trajectory_count(storage_name)
GetTrajectoryCount(data_dir) == GetNumericFileCount(data_dir)

\* mutant: the files are named from 1
TrajectoryFileFromOne(num_trajectory) == num_trajectory + 1

\* trajectory_file(storage_name, num_trajectory): the file named by the index itself
TrajectoryFile(num_trajectory) == num_trajectory

\* mutant: the writer skips a name and leaves a gap below its file
AppendByExtensionSkips(directory) == GetNumericFileCount(directory) + 1

\* append_by_extension: the next available name is the current count
AppendByExtension(directory) == GetNumericFileCount(directory)

\* mutant: a save never replaces a file that is already there
TorchSaveExclusive(directory, file, traj) ==
    [f \in (DOMAIN directory) \cup {file} |->
        IF f \in DOMAIN directory THEN directory[f] ELSE traj]

\* torch.save(traj, file): creates the file or overwrites it
TorchSave(directory, file, traj) ==
    [f \in (DOMAIN directory) \cup {file} |-> IF f = file THEN traj ELSE directory[f]]

\* mutant: the copy happens whatever the counts are
ImportDataToStorageAlways(data_dir, import_data_dir) == import_data_dir

\* mutant: the source is copied over the target without removing the target first
ImportDataToStorageMerge(data_dir, import_data_dir) ==
    IF GetNumericFileCount(data_dir) # GetNumericFileCount(import_data_dir)
    THEN [f \in (DOMAIN data_dir) \cup (DOMAIN import_data_dir) |->
            IF f \in DOMAIN import_data_dir THEN import_data_dir[f] ELSE data_dir[f]]
    ELSE data_dir

\* import_data_to_storage: the data directory after the call (rm -r, then cp -r)
ImportDataToStorage(data_dir, import_data_dir) ==
    IF GetNumericFileCount(data_dir) # GetNumericFileCount(import_data_dir)
    THEN import_data_dir
    ELSE data_dir

(***************************************************************************)
(* TrajectorySet and SystemDataManager helpers.                            *)
(***************************************************************************)
\* add_sliced_trajectory for each trajectory in turn, stopping at the first call that raises
RECURSIVE AddUntilRaise(_, _)
AddUntilRaise(ds, trajs) ==
    IF trajs = << >> THEN ds
    ELSE IF ~AddSlicedOK(ds, Head(trajs)) THEN ds
    ELSE AddUntilRaise(AddSlicedTrajectory(ds, Head(trajs)), Tail(trajs))

\* no add_sliced_trajectory call of the loop raises
AllAddSlicedOK(ds, trajs) == \A k \in 1..Len(trajs) : AddSlicedOK(ds, trajs[k])

\* make_trajectory_set returns (neither assertion of TrajectorySliceDataset fails)
MakeTrajectorySetOK(cfg, trajectories) ==
    /\ SliceDatasetInitOK(cfg.t_skip, cfg.t_history)
    /\ AllAddSlicedOK(EmptySliceDataset(cfg.t_skip, cfg.t_history, cfg.t_prediction),
                      trajectories)

\* mutant: the set keeps the trajectories but its slice dataset is left empty
MakeTrajectorySetUnsliced(cfg, trajectories) ==
    [slices |-> EmptySliceDataset(cfg.t_skip, cfg.t_history, cfg.t_prediction),
     trajectories |-> trajectories]

\* make_trajectory_set: TrajectorySet(slices = TrajectorySliceDataset(...), trajectories)
MakeTrajectorySet(cfg, trajectories) ==
    [slices |-> AddUntilRaise(
                    EmptySliceDataset(cfg.t_skip, cfg.t_history, cfg.t_prediction),
                    trajectories),
     trajectories |-> trajectories]

\* mutant: the set is rebuilt from the new trajectories instead of extended
ExtendTrajectorySetRebuild(set, trajectory_list) ==
    [slices |-> AddUntilRaise([set.slices EXCEPT !.in_slices = << >>, !.out_slices = << >>],
                              trajectory_list),
     trajectories |-> trajectory_list]

\* set.trajectories.extend(trajectory_list), then add_sliced_trajectory per trajectory
ExtendTrajectorySet(set, trajectory_list) ==
    [slices |-> AddUntilRaise(set.slices, trajectory_list),
     trajectories |-> set.trajectories \o trajectory_list]

\* generate_trajectory_set(N, T): N noised trajectories of T states each
GenerateTrajectorySet(N, T) == [k \in 1..N |-> Traj("gen", T)]

\* the split sizes of the first get_trajectory_split call
InitialSplitSizes(n, cfg) ==
    LET N_train == PyRound(n, cfg.train_fraction)
        N_valid == PyRound(n, cfg.valid_fraction)
        N_test == Min(PyRound(n, cfg.test_fraction), n - N_train - N_valid)
    IN  [N_train |-> N_train, N_valid |-> N_valid, N_test |-> N_test,
         N_tot |-> N_train + N_test + N_valid]

\* the split sizes of a growth call, from the number of new trajectories
GrowthSplitSizes(new_count, cfg) ==
    LET N_train == PyRound(new_count, cfg.train_fraction)
        N_valid == PyRound(new_count, cfg.valid_fraction)
        N_test == PyRound(new_count, cfg.test_fraction)
    IN  [N_train |-> N_train, N_valid |-> N_valid, N_test |-> N_test,
         N_tot |-> N_train + N_test + N_valid]

\* mutant: the permutation is not shifted to the new range (the "+ N_begin" is missing)
GetTrajectoriesSelectionsUnshifted(N_begin, N_end, N_requested) ==
    {PySlice(order, 0, N_requested) : order \in PermSeqs(0..(N_end - N_begin - 1))}

\* get_trajectories: the selections (randperm(N_end - N_begin) + N_begin)[:N_requested]
\* the random permutation can produce
GetTrajectoriesSelections(N_begin, N_end, N_requested) ==
    {PySlice(order, 0, N_requested) : order \in PermSeqs(N_begin..(N_end - 1))}

\* every torch.load of get_trajectories finds its file
LoadOK(data_dir, selection) ==
    \A k \in 1..Len(selection) : TrajectoryFile(selection[k]) \in DOMAIN data_dir

\* data = [torch.load(trajectory_file(storage, i)) for i in selection]
LoadSelection(data_dir, selection) ==
    [k \in 1..Len(selection) |-> data_dir[TrajectoryFile(selection[k])]]

\* mutant: the validation block is cut from the whole list, not from what train left
SplitBlocksOverlapping(traj_set, N_train, N_valid) ==
    [train |-> PySlice(traj_set, 0, N_train),
     valid |-> PySlice(traj_set, 0, N_valid),
     test |-> PySlice(PySlice(traj_set, N_train, Len(traj_set)), N_valid,
                      Len(PySlice(traj_set, N_train, Len(traj_set))))]

\* traj_set[:N_train], then of the rest [:N_valid] and [N_valid:]
SplitBlocks(traj_set, N_train, N_valid) ==
    LET rest == PySlice(traj_set, N_train, Len(traj_set))
    IN  [train |-> PySlice(traj_set, 0, N_train),
         valid |-> PySlice(rest, 0, N_valid),
         test |-> PySlice(rest, N_valid, Len(rest))]

(***************************************************************************)
(* SystemDataManager.__init__                                              *)
(***************************************************************************)
\* int(do_generate) + int(do_import) + int(do_dynamics)
NumSources(cfg) ==
    (IF cfg.generation_config # None THEN 1 ELSE 0)
    + (IF cfg.import_directory # None THEN 1 ELSE 0)
    + (IF cfg.dynamic_updates_from # None THEN 1 ELSE 0)

\* mutant: the assertion only asks for at least one data source
SourcesOKAtLeastOne(cfg) == NumSources(cfg) >= 1

\* assert (int(do_generate) + int(do_import) + int(do_dynamics)) == 1
SourcesOK(cfg) == NumSources(cfg) = 1

\* lines 141-152: the data source check and the choice of the acquisition path
CtorDispatch ==
    /\ pc = "init"
    /\ IF ~SourcesOK(config)
       THEN /\ pc' = "raised"
            /\ error' = "AssertionError"
            /\ path_log' = path_log
       ELSE /\ error' = error
            /\ IF config.generation_config # None
               THEN pc' = "generate" /\ path_log' = Append(path_log, "generate")
               ELSE IF config.import_directory # None
               THEN pc' = "import" /\ path_log' = Append(path_log, "import")
               ELSE pc' = "wait" /\ path_log' = Append(path_log, "wait")
    /\ UNCHANGED <<slicerVars, diskVars, setVars, config, storage0, n_on_disk, gen,
                   wait_n, writer>>

\* lines 149-150: file_utils.import_data_to_storage(config.storage, config.import_directory)
ImportStep ==
    /\ pc = "import"
    /\ storage' = ImportDataToStorage(storage, import_dir)
    /\ pc' = "record"
    /\ UNCHANGED <<slicerVars, import_dir, setVars, config, storage0, error, n_on_disk,
                   gen, wait_n, writer, path_log>>

\* mutant: the waiting loop never ends
WaitDoneNever(n, threshold) == FALSE

\* mutant: the waiting loop is skipped
WaitDoneAlways(n, threshold) == TRUE

\* the exit test of the waiting loop: not (n_on_disk < config.dynamic_updates_from)
WaitDone(n, threshold) == ~(n < threshold)

\* lines 153-154: the first poll of the on-disk count
WaitFirst ==
    /\ pc = "wait"
    /\ wait_n' = Some(GetTrajectoryCount(storage))
    /\ pc' = "wait_loop"
    /\ UNCHANGED <<slicerVars, diskVars, setVars, config, storage0, error, n_on_disk,
                   gen, writer, path_log>>

\* lines 155-158: one test of the waiting loop, with the poll of its body
WaitLoop ==
    /\ pc = "wait_loop"
    /\ IF WaitDone(wait_n[1], config.dynamic_updates_from[1])
       THEN pc' = "record" /\ wait_n' = wait_n
       ELSE pc' = pc /\ wait_n' = Some(GetTrajectoryCount(storage))
    /\ UNCHANGED <<slicerVars, diskVars, setVars, config, storage0, error, n_on_disk,
                   gen, writer, path_log>>

\* line 160: self.n_on_disk = file_utils.get_trajectory_count(self.config.storage)
CtorRecord ==
    /\ pc = "record"
    /\ n_on_disk' = Some(GetTrajectoryCount(storage))
    /\ pc' = "split"
    /\ UNCHANGED <<slicerVars, diskVars, setVars, config, storage0, error, gen, wait_n,
                   writer, path_log>>

(***************************************************************************)
(* SystemDataManager.generate                                              *)
(***************************************************************************)
\* lines 198-203: the first count and n_set = 30
GenStart ==
    /\ pc = "generate"
    /\ gen' = [n_generated |-> GetTrajectoryCount(storage), n_set |-> NominalBatch,
               traj_i |-> << >>, i |-> 0]
    /\ pc' = "gen_loop"
    /\ UNCHANGED <<slicerVars, diskVars, setVars, config, storage0, error, n_on_disk,
                   wait_n, writer, path_log>>

\* mutant: the loop stops one trajectory short of the population size
GenContinueOffByOne(n_generated, n_pop) == n_generated + 1 < n_pop

\* the loop test of generate: while n_generated < n_pop
GenContinue(n_generated, n_pop) == n_generated < n_pop

\* mutant: a failing simulation makes generate delete the files it has written
GenLoopRollback ==
    /\ pc = "gen_loop"
    /\ IF GenContinue(gen.n_generated, config.generation_config[1].n_pop)
       THEN \E sim_ok \in BOOLEAN :
              IF gen.n_set < 0 \/ config.generation_config[1].traj_len < 1
              THEN pc' = "raised" /\ error' = "AssertionError" /\ UNCHANGED <<gen, storage>>
              ELSE IF ~sim_ok
              THEN /\ pc' = "raised" /\ error' = "SimulationError" /\ gen' = gen
                   /\ storage' = [f \in {g \in DOMAIN storage : storage[g][1][1] # "gen"}
                                    |-> storage[f]]
              ELSE /\ pc' = "gen_count"
                   /\ error' = error
                   /\ storage' = storage
                   /\ gen' = [gen EXCEPT !.traj_i = GenerateTrajectorySet(
                                  gen.n_set, config.generation_config[1].traj_len)]
       ELSE pc' = "record" /\ error' = error /\ UNCHANGED <<gen, storage>>
    /\ UNCHANGED <<slicerVars, import_dir, setVars, config, storage0, n_on_disk, wait_n,
                   writer, path_log>>

\* lines 204-205: the loop test, and generate_trajectory_set(n_set, traj_len), whose
\* simulation calls either all return or one of them raises
GenLoop ==
    /\ pc = "gen_loop"
    /\ IF GenContinue(gen.n_generated, config.generation_config[1].n_pop)
       THEN \E sim_ok \in BOOLEAN :
              IF gen.n_set < 0 \/ config.generation_config[1].traj_len < 1
              THEN pc' = "raised" /\ error' = "AssertionError" /\ gen' = gen
              ELSE IF ~sim_ok
              THEN pc' = "raised" /\ error' = "SimulationError" /\ gen' = gen
              ELSE /\ pc' = "gen_count"
                   /\ error' = error
                   /\ gen' = [gen EXCEPT !.traj_i = GenerateTrajectorySet(
                                  gen.n_set, config.generation_config[1].traj_len)]
       ELSE pc' = "record" /\ error' = error /\ gen' = gen
    /\ UNCHANGED <<slicerVars, diskVars, setVars, config, storage0, n_on_disk, wait_n,
                   writer, path_log>>

\* mutant: the batch size is what is missing, the previous size forgotten
BatchSizeMissing(n_set, n_pop, n_generated) == n_pop - n_generated

\* mutant: the batch size is not capped by what is missing
BatchSizeUncapped(n_set, n_pop, n_generated) == n_set

\* line 209: n_set = min(n_set, n_pop - n_generated)
BatchSize(n_set, n_pop, n_generated) == Min(n_set, n_pop - n_generated)

\* lines 206-209: the count is read again; generate stops if it equals n_pop
GenCount ==
    /\ pc = "gen_count"
    /\ LET n == GetTrajectoryCount(storage)
       IN  IF n = config.generation_config[1].n_pop
           THEN /\ pc' = "record"
                /\ gen' = [gen EXCEPT !.n_generated = n]
           ELSE /\ pc' = "gen_save"
                /\ gen' = [gen EXCEPT
                             !.n_generated = n,
                             !.n_set = BatchSize(gen.n_set,
                                                 config.generation_config[1].n_pop, n),
                             !.i = 0]
    /\ UNCHANGED <<slicerVars, diskVars, setVars, config, storage0, error, n_on_disk,
                   wait_n, writer, path_log>>

\* lines 210-215: one pass of "for i in range(n_set)": torch.save of traj_i[i]
GenSave ==
    /\ pc = "gen_save"
    /\ IF gen.i < gen.n_set
       THEN IF gen.i >= Len(gen.traj_i)
            THEN /\ pc' = "raised"
                 /\ error' = "IndexError"
                 /\ UNCHANGED <<storage, gen>>
            ELSE /\ storage' = TorchSave(storage, TrajectoryFile(gen.n_generated + gen.i),
                                         gen.traj_i[gen.i + 1])
                 /\ gen' = [gen EXCEPT !.i = gen.i + 1]
                 /\ UNCHANGED <<pc, error>>
       ELSE /\ pc' = "gen_loop"
            /\ UNCHANGED <<storage, gen, error>>
    /\ UNCHANGED <<slicerVars, import_dir, setVars, config, storage0, n_on_disk, wait_n,
                   writer, path_log>>

(***************************************************************************)
(* The external writer: append_by_extension, then a save under that name.  *)
(***************************************************************************)
\* the writer computes the next available name
WriterPick ==
    /\ writer.pc = "idle"
    /\ GetNumericFileCount(storage) < MaxFiles
    /\ writer' = [writer EXCEPT !.pc = "save", !.num = AppendByExtension(storage)]
    /\ UNCHANGED <<slicerVars, diskVars, managerVars>>

\* the writer saves its trajectory under the name it computed
WriterSave ==
    /\ writer.pc = "save"
    /\ storage' = TorchSave(storage, writer.num, Traj("ext", writer.len))
    /\ writer' = [writer EXCEPT !.pc = "idle"]
    /\ UNCHANGED <<slicerVars, import_dir, managerVars>>

\* somebody else deletes a trajectory file of the data directory
ExternalRemove ==
    /\ \E file \in DOMAIN storage :
          storage' = [f \in (DOMAIN storage) \ {file} |-> storage[f]]
    /\ UNCHANGED <<slicerVars, import_dir, managerVars, writer>>

(***************************************************************************)
(* SystemDataManager.get_trajectory_split                                  *)
(***************************************************************************)
\* the assertion of get_trajectories: n_on_disk >= N_end
GetTrajectoriesOK(n, N_end) == n >= N_end

\* the files of the selection that torch.load has read when the list comprehension of
\* get_trajectories ends: all of them, or those before the first missing file
LoadedBeforeRaise(data_dir, selection) ==
    LET missing == {k \in 1..Len(selection) :
                      TrajectoryFile(selection[k]) \notin DOMAIN data_dir}
        n == IF missing = {} THEN Len(selection)
             ELSE (CHOOSE k \in missing : \A j \in missing : k <= j) - 1
    IN  SubSeq(selection, 1, n)

\* the record of one get_trajectory_split call: the branch it took, the on-disk count
\* it read (None if it read none) and the file indices it loaded, in load order
LogCall(kind, read, loaded) ==
    split_log' = Append(split_log, [kind |-> kind, read |-> read, loaded |-> loaded])

\* lines 250-267: the first call builds the three sets.  The attributes are assigned
\* in the order train, valid, test, so a make_trajectory_set call that raises leaves
\* the earlier ones set.
InitialSplit ==
    LET n == n_on_disk[1]
        sz == InitialSplitSizes(n, config)
    IN  \E selection \in GetTrajectoriesSelections(0, n, sz.N_tot) :
          IF ~GetTrajectoriesOK(n_on_disk[1], n)
          THEN /\ pc' = "raised" /\ error' = "AssertionError"
               /\ LogCall("initial", None, << >>)
               /\ UNCHANGED <<cachedVars, n_on_disk>>
          ELSE IF ~LoadOK(storage, selection)
          THEN /\ pc' = "raised" /\ error' = "FileNotFoundError"
               /\ LogCall("initial", None, LoadedBeforeRaise(storage, selection))
               /\ UNCHANGED <<cachedVars, n_on_disk>>
          ELSE
            LET traj == SplitBlocks(LoadSelection(storage, selection),
                                    sz.N_train, sz.N_valid)
                idx == SplitBlocks(selection, sz.N_train, sz.N_valid)
                okTrain == MakeTrajectorySetOK(config, traj.train)
                okValid == okTrain /\ MakeTrajectorySetOK(config, traj.valid)
                okTest == okValid /\ MakeTrajectorySetOK(config, traj.test)
            IN  /\ train_set' = IF okTrain
                                THEN Some(MakeTrajectorySet(config, traj.train))
                                ELSE train_set
                /\ valid_set' = IF okValid
                                THEN Some(MakeTrajectorySet(config, traj.valid))
                                ELSE valid_set
                /\ test_set' = IF okTest
                               THEN Some(MakeTrajectorySet(config, traj.test))
                               ELSE test_set
                /\ split_idx' = [train |-> IF okTrain THEN idx.train ELSE split_idx.train,
                                 valid |-> IF okValid THEN idx.valid ELSE split_idx.valid,
                                 test |-> IF okTest THEN idx.test ELSE split_idx.test]
                /\ n_on_disk' = n_on_disk
                /\ LogCall("initial", None, selection)
                /\ IF okTest
                   THEN pc' = "done" /\ error' = "none"
                   ELSE pc' = "raised" /\ error' = "AssertionError"

\* mutant: the growth is measured from the count at construction, not from the count
\* the previous call cached
GrowthBaselineStale == GetTrajectoryCount(storage0)

\* line 249: n_on_disk = self.n_on_disk, the count the growth is measured from
GrowthBaseline == n_on_disk[1]

\* lines 268-292: a later call in dynamic mode extends the three sets in place.  The
\* count is stored before the new trajectories are loaded, and the sets are extended
\* in the order train, valid, test, each list before its slices.
GrowSplit ==
    LET old == GrowthBaseline
        n_on_disk_new == GetTrajectoryCount(storage)
        new_count == n_on_disk_new - old
        sz == GrowthSplitSizes(new_count, config)
        after == IF pc = "split" THEN "raised" ELSE pc
    IN  IF n_on_disk_new = old
        THEN /\ pc' = "done" /\ error' = "none"
             /\ LogCall("growth", Some(n_on_disk_new), << >>)
             /\ UNCHANGED <<cachedVars, n_on_disk>>
        ELSE
          /\ n_on_disk' = Some(n_on_disk_new)
          /\ IF new_count < 0
             THEN /\ pc' = after /\ error' = "RuntimeError"
                  /\ LogCall("growth", Some(n_on_disk_new), << >>)
                  /\ UNCHANGED cachedVars
             ELSE
               \E selection \in GetTrajectoriesSelections(old, n_on_disk_new, sz.N_tot) :
                 IF ~GetTrajectoriesOK(n_on_disk_new, n_on_disk_new)
                 THEN /\ pc' = after /\ error' = "AssertionError"
                      /\ LogCall("growth", Some(n_on_disk_new), << >>)
                      /\ UNCHANGED cachedVars
                 ELSE IF ~LoadOK(storage, selection)
                 THEN /\ pc' = after /\ error' = "FileNotFoundError"
                      /\ LogCall("growth", Some(n_on_disk_new),
                                 LoadedBeforeRaise(storage, selection))
                      /\ UNCHANGED cachedVars
                 ELSE
                   LET traj == SplitBlocks(LoadSelection(storage, selection),
                                           sz.N_train, sz.N_valid)
                       idx == SplitBlocks(selection, sz.N_train, sz.N_valid)
                       okTrain == AllAddSlicedOK(train_set[1].slices, traj.train)
                       okValid == okTrain /\ AllAddSlicedOK(valid_set[1].slices, traj.valid)
                       okTest == okValid /\ AllAddSlicedOK(test_set[1].slices, traj.test)
                   IN  /\ train_set' = Some(ExtendTrajectorySet(train_set[1], traj.train))
                       /\ valid_set' = IF okTrain
                                       THEN Some(ExtendTrajectorySet(valid_set[1], traj.valid))
                                       ELSE valid_set
                       /\ test_set' = IF okValid
                                      THEN Some(ExtendTrajectorySet(test_set[1], traj.test))
                                      ELSE test_set
                       /\ split_idx' =
                            [train |-> split_idx.train \o idx.train,
                             valid |-> IF okTrain THEN split_idx.valid \o idx.valid
                                       ELSE split_idx.valid,
                             test |-> IF okValid THEN split_idx.test \o idx.test
                                      ELSE split_idx.test]
                       /\ LogCall("growth", Some(n_on_disk_new), selection)
                       /\ IF okTest
                          THEN pc' = "done" /\ error' = "none"
                          ELSE pc' = after /\ error' = "AssertionError"

\* get_trajectory_split: called by __init__ (line 162) and by the user afterwards, who
\* makes at most MaxCalls calls
GetTrajectorySplit ==
    /\ pc = "split" \/ (pc = "done" /\ Len(split_log) < 1 + MaxCalls)
    /\ IF train_set = None
       THEN InitialSplit
       ELSE IF Truthy(config.dynamic_updates_from)
       THEN GrowSplit
       ELSE /\ pc' = "done" /\ error' = "none"
            /\ LogCall("cached", None, << >>)
            /\ UNCHANGED <<cachedVars, n_on_disk>>
    /\ UNCHANGED <<slicerVars, diskVars, config, storage0, gen, wait_n, writer, path_log>>

\* the program is run again: a new SystemDataManager is constructed with the same
\* configuration on the storage as the previous run left it
Reconstruct ==
    /\ pc \in {"done", "raised"}
    /\ Len(path_log) < MaxRuns
    /\ pc' = "init"
    /\ error' = "none"
    /\ n_on_disk' = None
    /\ train_set' = None
    /\ valid_set' = None
    /\ test_set' = None
    /\ split_idx' = [train |-> << >>, valid |-> << >>, test |-> << >>]
    /\ gen' = [n_generated |-> 0, n_set |-> 0, traj_i |-> << >>, i |-> 0]
    /\ wait_n' = None
    /\ storage0' = storage
    /\ split_log' = << >>
    /\ UNCHANGED <<slicerVars, diskVars, config, writer, path_log>>

(***************************************************************************)
(* Initial states.                                                         *)
(***************************************************************************)
\* the stand-alone slice dataset is not used
IdleSlicer ==
    /\ dataset = EmptySliceDataset(0, 1, 1)
    /\ appended = << >>
    /\ slicer_err = "none"

\* a writer that is not running
NoWriter == [pc |-> "absent", num |-> 0, len |-> 1]

\* a writer about to pick a name for a trajectory of len states
IdleWriter(len) == [pc |-> "idle", num |-> 0, len |-> len]

\* the DataConfig records over the given field values
ConfigSet(gens, imps, dyns, fracs, wins) ==
    {[generation_config |-> g, import_directory |-> im, dynamic_updates_from |-> d,
      train_fraction |-> f[1], valid_fraction |-> f[2], test_fraction |-> f[3],
      t_skip |-> w[1], t_history |-> w[2], t_prediction |-> w[3]] :
        g \in gens, im \in imps, d \in dyns, f \in fracs, w \in wins}

\* directories holding the files 0..n-1, n <= maxn, each a trajectory of len states
DenseDirs(origin, len, maxn) ==
    {[f \in 0..(n - 1) |-> Traj(origin, len)] : n \in 0..maxn}

\* directories holding any files among 0..maxn-1
AnyDirs(origin, len, maxn) ==
    {[f \in S |-> Traj(origin, len)] : S \in SUBSET (0..(maxn - 1))}

\* a directory without trajectory files
EmptyDir == [f \in {} |-> << >>]

\* no manager exists
IdleManager ==
    /\ config \in ConfigSet({None}, {None}, {None}, {<<0, 0, 0>>}, {<<0, 1, 1>>})
    /\ storage = EmptyDir
    /\ import_dir = EmptyDir
    /\ storage0 = EmptyDir
    /\ pc = "idle"
    /\ error = "none"
    /\ n_on_disk = None
    /\ train_set = None
    /\ valid_set = None
    /\ test_set = None
    /\ split_idx = [train |-> << >>, valid |-> << >>, test |-> << >>]
    /\ gen = [n_generated |-> 0, n_set |-> 0, traj_i |-> << >>, i |-> 0]
    /\ wait_n = None
    /\ writer = NoWriter
    /\ path_log = << >>
    /\ split_log = << >>

\* SystemDataManager(system, config) is about to run on the given storage
InitManager(cfgs, stores, imports, writers) ==
    /\ IdleSlicer
    /\ config \in cfgs
    /\ storage \in stores
    /\ import_dir \in imports
    /\ storage0 = storage
    /\ pc = "init"
    /\ error = "none"
    /\ n_on_disk = None
    /\ train_set = None
    /\ valid_set = None
    /\ test_set = None
    /\ split_idx = [train |-> << >>, valid |-> << >>, test |-> << >>]
    /\ gen = [n_generated |-> 0, n_set |-> 0, traj_i |-> << >>, i |-> 0]
    /\ wait_n = None
    /\ writer \in writers
    /\ path_log = << >>
    /\ split_log = << >>

(***************************************************************************)
(* A stand-alone slice dataset driven by add_sliced_trajectory calls.      *)
(***************************************************************************)
\* the window parameters a slice dataset can be constructed with
SlicerParams ==
    {p \in (0..MaxSkip) \X (1..(MaxSkip + 1)) \X (1..MaxPred) :
        SliceDatasetInitOK(p[1], p[2])}

\* the trajectories handed to the stand-alone dataset
SlicerTrajs == {Traj(o, len) : o \in {"a", "b"}, len \in 1..MaxLen}

InitSlicer ==
    /\ \E p \in SlicerParams : dataset = EmptySliceDataset(p[1], p[2], p[3])
    /\ appended = << >>
    /\ slicer_err = "none"
    /\ IdleManager

\* one call dataset.add_sliced_trajectory(traj)
SlicerAdd ==
    /\ Len(appended) < MaxAdds
    /\ \E traj \in SlicerTrajs :
        /\ appended' = Append(appended, traj)
        /\ IF AddSlicedOK(dataset, traj)
           THEN /\ dataset' = AddSlicedTrajectory(dataset, traj)
                /\ slicer_err' = "none"
           ELSE /\ dataset' = dataset
                /\ slicer_err' = "AssertionError"
    /\ UNCHANGED <<diskVars, managerVars, writer>>

NextSlicer == SlicerAdd

SpecSlicer == InitSlicer /\ [][NextSlicer]_vars

(***************************************************************************)
(* Claims about the slice dataset (checked under SpecSlicer).              *)
(***************************************************************************)
Max(a, b) == IF a >= b THEN a ELSE b

\* C1: a call add_sliced_trajectory(traj) with len(traj) = L adds exactly
\* max(0, L - t_prediction - t_skip) slice pairs; the k-th added pair is anchored
\* at i = t_skip + k, its history window is traj[i+1-t_history .. i], its future
\* window is traj[i+1 .. i+t_prediction], and all these indices lie in [0, L).
C1_SliceCountAndWindows ==
    [][appended' # appended =>
        LET traj == appended'[Len(appended')]
            L == Len(traj)
            ts == dataset.t_skip
            th == dataset.t_history
            tp == dataset.t_prediction
            n0 == SliceLen(dataset)
            expect == Max(0, L - tp - ts)
        IN  /\ Len(dataset'.in_slices) = n0 + expect
            /\ Len(dataset'.out_slices) = Len(dataset.out_slices) + expect
            /\ \A k \in 0..(expect - 1) :
                LET i == ts + k
                IN  /\ 0 <= i + 1 - th
                    /\ i + tp <= L - 1
                    /\ dataset'.in_slices[n0 + k + 1] = [j \in 1..th |-> traj[i + 1 - th + j]]
                    /\ dataset'.out_slices[n0 + k + 1] = [j \in 1..tp |-> traj[i + 1 + j]]
    ]_vars

\* C1 witness: a call has added at least two pairs with a history window longer than one.
C1_Witness ==
    /\ Len(appended) = 1
    /\ slicer_err = "none"
    /\ dataset.t_history >= 2
    /\ SliceLen(dataset) >= 2
    /\ SliceLen(dataset) = Len(appended[1]) - dataset.t_prediction - dataset.t_skip

\* the slice pairs one trajectory contributes to a dataset with the parameters of ds
SlicesOf(ds, traj) ==
    LET one == AddSlicedTrajectory(
                  EmptySliceDataset(ds.t_skip, ds.t_history, ds.t_prediction), traj)
    IN  [k \in 1..SliceLen(one) |-> SliceGetItem(one, k - 1)]

RECURSIVE ConcatSlices(_, _)
ConcatSlices(ds, trajs) ==
    IF trajs = << >> THEN << >>
    ELSE SlicesOf(ds, Head(trajs)) \o ConcatSlices(ds, Tail(trajs))

\* the slice list is the concatenation, in append order, of the appended trajectories' slices
C2_IsConcatenation ==
    /\ Len(dataset.in_slices) = Len(dataset.out_slices)
    /\ [k \in 1..SliceLen(dataset) |-> SliceGetItem(dataset, k - 1)]
         = ConcatSlices(dataset, appended)

\* C2: the slice index space is append-stable: the slice list is the concatenation of
\* the appended trajectories' slices in append order, len never decreases and every
\* index valid before an append returns the same (history, future) pair after it.
C2_AppendStable ==
    /\ []C2_IsConcatenation
    /\ [][/\ SliceLen(dataset') >= SliceLen(dataset)
          /\ \A idx \in 0..(SliceLen(dataset) - 1) :
                SliceGetItem(dataset', idx) = SliceGetItem(dataset, idx)]_vars

\* C2 witness: trajectory B was appended after a different trajectory A, both with slices.
C2_Witness ==
    /\ Len(appended) = 2
    /\ appended[1] # appended[2]
    /\ Len(SlicesOf(dataset, appended[1])) >= 1
    /\ SliceLen(dataset) > Len(SlicesOf(dataset, appended[1]))

(***************************************************************************)
(* Construction in every combination of the three data source fields, on a *)
(* dense store, with an external writer appending files.                   *)
(***************************************************************************)
\* the default split fractions 0.5, 0.25, 0.25 as multiples of 1 / FracDen
DefaultFractions == <<FracDen \div 2, FracDen \div 4, FracDen \div 4>>

\* the default windowing t_skip = 0, t_history = 1, t_prediction = 1
DefaultWindow == <<0, 1, 1>>

CtorConfigs ==
    ConfigSet({None, Some([n_pop |-> MaxPop, traj_len |-> 2])},
              {None, Some("import")},
              {None} \cup {Some(d) : d \in 0..MaxDyn},
              {DefaultFractions}, {DefaultWindow})

InitCtor ==
    InitManager(CtorConfigs, DenseDirs("init", 2, MaxFiles - 1),
                {EmptyDir, [f \in {0} |-> Traj("src", 2)]}, {IdleWriter(2)})

NextCtor ==
    \/ CtorDispatch
    \/ GenStart
    \/ GenLoop
    \/ GenCount
    \/ GenSave
    \/ ImportStep
    \/ WaitFirst
    \/ WaitLoop
    \/ CtorRecord
    \/ GetTrajectorySplit
    \/ WriterPick
    \/ WriterSave

SpecCtor == InitCtor /\ [][NextCtor]_vars

(***************************************************************************)
(* Claims about construction (checked under SpecCtor).                     *)
(***************************************************************************)
\* who produced a trajectory: "init", "src", "gen" or "ext"
Origin(traj) == traj[1][1]

\* the positions inside generate, and inside the waiting loop
GenPcs == {"generate", "gen_loop", "gen_count", "gen_save"}

WaitPcs == {"wait", "wait_loop"}

\* the acquisition path the configuration selects when exactly one source is set
SelectedPath(cfg) ==
    IF cfg.generation_config # None THEN "generate"
    ELSE IF cfg.import_directory # None THEN "import"
    ELSE "wait"

\* nothing of generation, import, waiting or split computation has happened
NoAcquisitionYet ==
    /\ path_log = << >>
    /\ gen = [n_generated |-> 0, n_set |-> 0, traj_i |-> << >>, i |-> 0]
    /\ wait_n = None
    /\ n_on_disk = None
    /\ train_set = None /\ valid_set = None /\ test_set = None
    /\ \A f \in DOMAIN storage : Origin(storage[f]) \in {"init", "ext"}
    /\ \A f \in DOMAIN storage0 : f \in DOMAIN storage /\ storage[f] = storage0[f]

\* C3: construction executes exactly one acquisition path, the one whose configuration
\* field is non-null; with zero or several non-null fields it fails with an
\* AssertionError before any generation, import, wait or storage access.
C3_ExactlyOnePath ==
    /\ Len(path_log) <= 1
    /\ (NumSources(config) # 1 =>
          /\ pc \in {"init", "raised"}
          /\ pc = "raised" => error = "AssertionError"
          /\ NoAcquisitionYet)
    /\ (NumSources(config) = 1 =>
          /\ pc # "init" => path_log = <<SelectedPath(config)>>
          /\ pc \in GenPcs => SelectedPath(config) = "generate"
          /\ pc = "import" => SelectedPath(config) = "import"
          /\ pc \in WaitPcs => SelectedPath(config) = "wait"
          /\ SelectedPath(config) # "generate" => gen.traj_i = << >>
          /\ SelectedPath(config) # "wait" => wait_n = None
          /\ SelectedPath(config) # "import" =>
                \A f \in DOMAIN storage : Origin(storage[f]) # "src")

\* C3 witness: a configuration with several sources was rejected, and the external
\* writer has added files since.
C3_Witness ==
    /\ NumSources(config) > 1
    /\ pc = "raised"
    /\ GetTrajectoryCount(storage) > GetTrajectoryCount(storage0)

\* C8: in dynamic mode n_on_disk is not recorded and no split is computed until a poll
\* has seen a count >= dynamic_updates_from; the manager writes no file; and the
\* recorded n_on_disk is >= dynamic_updates_from.
C8_DynamicWait ==
    (NumSources(config) = 1 /\ config.dynamic_updates_from # None) =>
        /\ (pc \in {"record", "split", "done"} \/ n_on_disk # None \/ train_set # None) =>
              /\ wait_n # None
              /\ wait_n[1] >= config.dynamic_updates_from[1]
        /\ \A f \in DOMAIN storage : Origin(storage[f]) \in {"init", "ext"}
        /\ \A f \in DOMAIN storage0 : f \in DOMAIN storage /\ storage[f] = storage0[f]
        /\ n_on_disk # None => n_on_disk[1] >= config.dynamic_updates_from[1]

\* C8 witness: construction returned after it had to wait for the writer.
C8_Witness ==
    /\ config.dynamic_updates_from # None
    /\ NumSources(config) = 1
    /\ GetTrajectoryCount(storage0) < config.dynamic_updates_from[1]
    /\ pc = "done"
    /\ n_on_disk[1] >= config.dynamic_updates_from[1]

(***************************************************************************)
(* Generation mode on any initial content of the data directory, with and  *)
(* without an external writer racing.                                      *)
(***************************************************************************)
GenConfigs ==
    ConfigSet({Some([n_pop |-> n, traj_len |-> 2]) : n \in 0..MaxPop}, {None}, {None},
              {DefaultFractions}, {DefaultWindow})

InitGen ==
    InitManager(GenConfigs, AnyDirs("init", 2, MaxFiles), {EmptyDir},
                {NoWriter, IdleWriter(2)})

\* the steps of construction up to the return of generate
GenerateStep ==
    \/ CtorDispatch
    \/ GenStart
    \/ GenLoop
    \/ GenCount
    \/ GenSave

NextGen ==
    \/ GenerateStep
    \/ CtorRecord
    \/ GetTrajectorySplit
    \/ WriterPick
    \/ WriterSave

SpecGen == InitGen /\ [][NextGen]_vars

\* the thread that runs generate keeps running; nothing is assumed about the writer
FairSpecGen == InitGen /\ [][NextGen]_vars /\ WF_vars(GenerateStep)

\* the directory holds exactly the files 0..n-1 for some n
IsDense(directory) == DOMAIN directory = 0..(GetNumericFileCount(directory) - 1)

\* control has left generate: it returned, or an exception left it
GenLeft == pc \notin GenPcs \cup {"init"}

\* generate returns only when the on-disk count has reached n_pop
GenReturnsOnlyWhenReached ==
    pc = "record" => GetTrajectoryCount(storage) >= config.generation_config[1].n_pop

\* C4 as claimed: for every initial content and every interleaving with the writer,
\* generate terminates (its simulation calls returning), and returns only when the
\* on-disk count has reached n_pop.
C4_TerminatesAnyContent == (<>GenLeft) /\ []GenReturnsOnlyWhenReached

\* C4 amended: from a dense initial content 0..c-1, for every interleaving with a writer
\* that saves under the next available name, generate terminates, and it returns only
\* when the on-disk count has reached n_pop.
C4_TerminatesDense == (IsDense(storage0) => <>GenLeft) /\ []GenReturnsOnlyWhenReached

\* C4 witness: generate returned after writing, with the writer's files among its own.
C4_Witness ==
    /\ pc = "record"
    /\ IsDense(storage0)
    /\ GetTrajectoryCount(storage0) < config.generation_config[1].n_pop
    /\ \E f \in DOMAIN storage : Origin(storage[f]) = "gen"
    /\ \E f \in DOMAIN storage : Origin(storage[f]) = "ext"

\* C5: generate never writes beyond n_pop: every file it writes has an index < n_pop,
\* and an iteration whose re-read count is >= n_pop writes no file.
C5_NeverBeyondPop ==
    /\ \A f \in DOMAIN storage :
          Origin(storage[f]) = "gen" => f < config.generation_config[1].n_pop
    /\ [][storage' # storage /\ pc = "gen_save" /\ gen' # gen =>
            /\ gen.n_generated < config.generation_config[1].n_pop
            /\ gen.n_generated + gen.i < config.generation_config[1].n_pop
            /\ DOMAIN storage' = (DOMAIN storage) \cup {gen.n_generated + gen.i}]_vars
    /\ [](pc = "gen_save" /\ gen.n_generated >= config.generation_config[1].n_pop
            => gen.i >= gen.n_set)

\* C5 witness: the writer overtook the target between the loop test and the re-read:
\* a batch was generated, and the loop over it is entered with nothing to write.
C5_Witness ==
    /\ pc = "gen_save"
    /\ gen.traj_i # << >>
    /\ gen.n_generated > config.generation_config[1].n_pop
    /\ gen.n_set < 0

(***************************************************************************)
(* Import mode on any content of the data directory and of the import      *)
(* source, the program being run up to MaxRuns times on the same storage.  *)
(***************************************************************************)
ImportConfigs ==
    ConfigSet({None}, {Some("import")}, {None}, {DefaultFractions}, {DefaultWindow})

InitImport ==
    InitManager(ImportConfigs, AnyDirs("init", 2, MaxFiles), AnyDirs("src", 2, MaxFiles),
                {NoWriter})

NextImport ==
    \/ CtorDispatch
    \/ ImportStep
    \/ CtorRecord
    \/ GetTrajectorySplit
    \/ Reconstruct

SpecImport == InitImport /\ [][NextImport]_vars

\* C6: when the data directory and the import source hold equally many trajectory
\* files, import_data_to_storage leaves the data directory's files unchanged; so an
\* import that follows another import changes nothing.
C6_ImportNoOp ==
    /\ [][pc = "import" /\ pc' = "record" =>
            /\ import_dir' = import_dir
            /\ GetNumericFileCount(storage) = GetNumericFileCount(import_dir)
                  => storage' = storage]_vars
    /\ [](Len(path_log) = 2 /\ pc # "import" => storage = storage0)

\* C6 witness: the second import has run on a data directory that the first import had
\* left alone although its files differ from the source's.
C6_Witness ==
    /\ Len(path_log) = 2
    /\ pc = "record"
    /\ GetNumericFileCount(storage) = GetNumericFileCount(import_dir)
    /\ GetNumericFileCount(storage) > 0
    /\ \A f \in DOMAIN storage : Origin(storage[f]) = "init"

\* C7: when the counts differ, after import_data_to_storage the data directory holds
\* exactly a copy of the source's files, its count equals the source's count, and no
\* file of its previous content survives.
C7_ImportReplaces ==
    [][pc = "import" /\ pc' = "record"
         /\ GetNumericFileCount(storage) # GetNumericFileCount(import_dir) =>
            /\ storage' = import_dir
            /\ DOMAIN storage' = DOMAIN import_dir
            /\ GetNumericFileCount(storage') = GetNumericFileCount(import_dir)
            /\ \A f \in DOMAIN storage' : Origin(storage'[f]) = "src"]_vars

\* C7 witness: an import has replaced a non-empty data directory holding a file the
\* source does not have.
C7_Witness ==
    /\ Len(path_log) = 1
    /\ pc = "record"
    /\ GetNumericFileCount(storage0) # GetNumericFileCount(import_dir)
    /\ (DOMAIN storage0) \ (DOMAIN import_dir) # {}
    /\ import_dir # EmptyDir
    /\ storage = import_dir

(***************************************************************************)
(* The initial split for every count N <= MaxSplitN and all fractions      *)
(* k / FracDen, on a dense store filled by an import.                      *)
(***************************************************************************)
AllFractions == (0..FracDen) \X (0..FracDen) \X (0..FracDen)

SplitConfigs ==
    ConfigSet({None}, {Some("import")}, {None}, AllFractions, {DefaultWindow})

InitSplit ==
    InitManager(SplitConfigs, {EmptyDir}, DenseDirs("src", 2, MaxSplitN), {NoWriter})

NextSplit ==
    \/ CtorDispatch
    \/ ImportStep
    \/ CtorRecord
    \/ GetTrajectorySplit

SpecSplit == InitSplit /\ [][NextSplit]_vars

\* the elements of a sequence
Range(seq) == {seq[k] : k \in 1..Len(seq)}

\* the sequence has no element twice
NoRepeat(seq) == \A j, k \in 1..Len(seq) : j # k => seq[j] # seq[k]

\* C9: the first get_trajectory_split builds a train set of exactly
\* round(N * train_fraction) trajectories, a valid set of exactly
\* round(N * valid_fraction) and a test set of exactly
\* min(round(N * test_fraction), N - N_train - N_valid), taken as consecutive blocks
\* of one permutation of [0, N).
C9_InitialSplitSizes ==
    pc = "done" =>
        LET N == n_on_disk[1]
            N_train == PyRound(N, config.train_fraction)
            N_valid == PyRound(N, config.valid_fraction)
            N_test == Min(PyRound(N, config.test_fraction), N - N_train - N_valid)
        IN  /\ Len(train_set[1].trajectories) = N_train
            /\ Len(valid_set[1].trajectories) = N_valid
            /\ Len(test_set[1].trajectories) = N_test
            /\ NoRepeat(split_idx.train \o split_idx.valid \o split_idx.test)
            /\ Range(split_idx.train \o split_idx.valid \o split_idx.test) \subseteq 0..(N - 1)

\* C10: after the initial split the train, valid and test sets are pairwise disjoint in
\* on-disk trajectory index, every index lies in [0, N), and the size of their union
\* is N_train + N_valid + N_test.
C10_DisjointSplit ==
    pc = "done" =>
        LET N == n_on_disk[1]
            sz == InitialSplitSizes(N, config)
            tr == Range(split_idx.train)
            va == Range(split_idx.valid)
            te == Range(split_idx.test)
        IN  /\ tr \cap va = {} /\ tr \cap te = {} /\ va \cap te = {}
            /\ tr \cup va \cup te \subseteq 0..(N - 1)
            /\ Cardinality(tr \cup va \cup te) = sz.N_train + sz.N_valid + sz.N_test
            /\ Len(train_set[1].trajectories) = Len(split_idx.train)
            /\ Len(valid_set[1].trajectories) = Len(split_idx.valid)
            /\ Len(test_set[1].trajectories) = Len(split_idx.test)
            /\ Len(split_idx.train) + Len(split_idx.valid) + Len(split_idx.test)
                  = Cardinality(tr \cup va \cup te)

\* C10 witness: a split with three non-empty sets that leaves trajectories out.
C10_Witness ==
    /\ pc = "done"
    /\ split_idx.train # << >>
    /\ split_idx.valid # << >>
    /\ split_idx.test # << >>
    /\ Len(split_idx.train) + Len(split_idx.valid) + Len(split_idx.test) < n_on_disk[1]

(***************************************************************************)
(* Dynamic mode: the manager waits for the threshold, computes the initial *)
(* split, and the user calls get_trajectory_split again while an external  *)
(* writer appends files to a dense store.                                  *)
(***************************************************************************)
\* the split fractions k / FracDen that sum to one
UnitFractions == {f \in AllFractions : f[1] + f[2] + f[3] = FracDen}

DynConfigs ==
    ConfigSet({None}, {None}, {Some(d) : d \in 0..MaxDyn}, UnitFractions, {DefaultWindow})

InitDyn ==
    InitManager(DynConfigs, DenseDirs("init", 2, MaxFiles - 1), {EmptyDir}, {IdleWriter(2)})

NextDyn ==
    \/ CtorDispatch
    \/ WaitFirst
    \/ WaitLoop
    \/ CtorRecord
    \/ GetTrajectorySplit
    \/ WriterPick
    \/ WriterSave

SpecDyn == InitDyn /\ [][NextDyn]_vars

(***************************************************************************)
(* Claims about split growth (checked under SpecDyn).                      *)
(***************************************************************************)
\* the step is a get_trajectory_split call on a manager whose sets exist
LaterSplitCall == train_set # None /\ Len(split_log') = Len(split_log) + 1

\* the number of trajectories the step adds to each set
AddedTo(set, set_after) == Len(set_after[1].trajectories) - Len(set[1].trajectories)

\* C11: in dynamic mode (with a threshold the growth branch acts on), a
\* get_trajectory_split call that finds the on-disk count grown by D > 0 since the
\* previous call adds exactly D trajectories in total to the three sets:
\* round(D * train_fraction) to train, round(D * valid_fraction) to valid and
\* round(D * test_fraction) to test.
C11_GrowthDistributesAll ==
    [][LaterSplitCall /\ Truthy(config.dynamic_updates_from)
         /\ GetTrajectoryCount(storage) > n_on_disk[1] =>
            LET D == GetTrajectoryCount(storage) - n_on_disk[1]
            IN  /\ AddedTo(train_set, train_set') = PyRound(D, config.train_fraction)
                /\ AddedTo(valid_set, valid_set') = PyRound(D, config.valid_fraction)
                /\ AddedTo(test_set, test_set') = PyRound(D, config.test_fraction)
                /\ AddedTo(train_set, train_set') + AddedTo(valid_set, valid_set')
                      + AddedTo(test_set, test_set') = D]_vars

\* seq is a prefix of seq_after
IsPrefix(seq, seq_after) ==
    Len(seq) <= Len(seq_after) /\ SubSeq(seq_after, 1, Len(seq)) = seq

\* what seq_after holds beyond its first n elements
Beyond(seq_after, n) == SubSeq(seq_after, n + 1, Len(seq_after))

\* the trajectories of the set are the files the recorded indices name
LoadedFrom(set, idx) ==
    set # None =>
        /\ Len(set[1].trajectories) = Len(idx)
        /\ \A k \in 1..Len(idx) :
              idx[k] \in DOMAIN storage /\ set[1].trajectories[k] = storage[idx[k]]

\* C12: in dynamic mode with an append-only writer, after any sequence of
\* get_trajectory_split calls no on-disk index occurs in two of the sets nor twice in
\* one set, an index once assigned to a set stays in it, and a growth call assigns only
\* indices of the new range [old_count, new_count).
C12_AssignedOnceForever ==
    /\ [](/\ NoRepeat(split_idx.train \o split_idx.valid \o split_idx.test)
          /\ LoadedFrom(train_set, split_idx.train)
          /\ LoadedFrom(valid_set, split_idx.valid)
          /\ LoadedFrom(test_set, split_idx.test))
    /\ [][/\ IsPrefix(split_idx.train, split_idx'.train)
          /\ IsPrefix(split_idx.valid, split_idx'.valid)
          /\ IsPrefix(split_idx.test, split_idx'.test)
          /\ LaterSplitCall =>
                Range(Beyond(split_idx'.train, Len(split_idx.train))
                        \o Beyond(split_idx'.valid, Len(split_idx.valid))
                        \o Beyond(split_idx'.test, Len(split_idx.test)))
                  \subseteq n_on_disk[1]..(GetTrajectoryCount(storage) - 1)]_vars

\* C12 witness: the initial split assigned an index and a later growth call assigned
\* another one.
C12_Witness ==
    /\ Len(split_log) >= 2
    /\ split_log[1].loaded # << >>
    /\ split_log[Len(split_log)].kind = "growth"
    /\ split_log[Len(split_log)].loaded # << >>
    /\ Len(split_idx.train) + Len(split_idx.valid) + Len(split_idx.test) >= 2

\* the set exists after the step and its lists before the step are prefixes of its
\* lists after the step
GrownInPlace(set, set_after) ==
    set # None =>
        /\ set_after # None
        /\ IsPrefix(set[1].trajectories, set_after[1].trajectories)
        /\ IsPrefix(set[1].slices.in_slices, set_after[1].slices.in_slices)
        /\ IsPrefix(set[1].slices.out_slices, set_after[1].slices.out_slices)
        /\ set_after[1].slices.t_skip = set[1].slices.t_skip
        /\ set_after[1].slices.t_history = set[1].slices.t_history
        /\ set_after[1].slices.t_prediction = set[1].slices.t_prediction

\* C13: split growth is append-only on every set: the trajectory list and the slice
\* list of train, valid and test before a get_trajectory_split call are prefixes of the
\* lists after it, and the three cached sets stay the manager's sets over every call.
C13_AppendOnlySets ==
    [][/\ GrownInPlace(train_set, train_set')
       /\ GrownInPlace(valid_set, valid_set')
       /\ GrownInPlace(test_set, test_set')]_vars

\* C13 witness: a growth call has extended a set that the initial split had filled: the
\* set holds a trajectory of the initial store followed by one of the writer, and the
\* slices of both.
C13_Witness ==
    /\ pc = "done"
    /\ \E set \in {train_set, valid_set, test_set} :
          /\ Len(set[1].trajectories) >= 2
          /\ Origin(set[1].trajectories[1]) = "init"
          /\ Origin(set[1].trajectories[Len(set[1].trajectories)]) = "ext"
          /\ SliceLen(set[1].slices) = Len(set[1].trajectories)

\* the record of the last get_trajectory_split call
LastCall(log) == log[Len(log)]

\* C14: in dynamic mode, for every threshold dynamic_updates_from >= 0, every
\* get_trajectory_split call after the initial split reads the on-disk count afresh, so
\* that after the call n_on_disk is the on-disk count at the time of the call.
C14_FreshCountEveryCall ==
    [][LaterSplitCall /\ NumSources(config) = 1 /\ config.dynamic_updates_from # None =>
          n_on_disk' = Some(GetTrajectoryCount(storage))]_vars

\* C15: in dynamic mode a get_trajectory_split call made when the on-disk count equals
\* the cached n_on_disk leaves n_on_disk and the trajectory and slice lists of the three
\* sets unchanged and loads no trajectory file.
C15_GrowthNoOp ==
    [][LaterSplitCall /\ NumSources(config) = 1 /\ config.dynamic_updates_from # None
         /\ GetTrajectoryCount(storage) = n_on_disk[1] =>
            /\ n_on_disk' = n_on_disk
            /\ train_set' = train_set
            /\ valid_set' = valid_set
            /\ test_set' = test_set
            /\ LastCall(split_log').loaded = << >>]_vars

\* C15 witness: after a growth call that loaded files, a further call has read the same
\* count again.
C15_Witness ==
    /\ pc = "done"
    /\ Len(split_log) >= 3
    /\ LastCall(split_log).kind = "growth"
    /\ split_log[Len(split_log) - 1].kind = "growth"
    /\ split_log[Len(split_log) - 1].loaded # << >>
    /\ LastCall(split_log).read = split_log[Len(split_log) - 1].read
    /\ LastCall(split_log).loaded = << >>
    /\ n_on_disk = LastCall(split_log).read

(***************************************************************************)
(* The static modes (generate, import): after construction the user calls  *)
(* get_trajectory_split again while files are added to and removed from    *)
(* the data directory.                                                     *)
(***************************************************************************)
StaticConfigs ==
    {cfg \in ConfigSet({None, Some([n_pop |-> MaxPop - 1, traj_len |-> 2])},
                       {None, Some("import")}, {None},
                       {DefaultFractions}, {DefaultWindow}) : NumSources(cfg) = 1}

InitStatic ==
    InitManager(StaticConfigs, DenseDirs("init", 2, MaxFiles - 1),
                DenseDirs("src", 2, MaxFiles - 1), {IdleWriter(2)})

\* files are added and removed between the return of the constructor and the later calls
StorageChanges ==
    /\ pc = "done"
    /\ (WriterPick \/ WriterSave \/ ExternalRemove)

NextStatic ==
    \/ CtorDispatch
    \/ GenStart
    \/ GenLoop
    \/ GenCount
    \/ GenSave
    \/ ImportStep
    \/ CtorRecord
    \/ GetTrajectorySplit
    \/ StorageChanges

SpecStatic == InitStatic /\ [][NextStatic]_vars

\* C16: in the static modes every get_trajectory_split call after construction leaves
\* the three sets and the cached n_on_disk unchanged (it reads no count and loads no
\* file), whatever files were added to or removed from the storage in the meantime.
C16_StaticUnchanged ==
    [][LaterSplitCall /\ config.dynamic_updates_from = None =>
          /\ train_set' = train_set
          /\ valid_set' = valid_set
          /\ test_set' = test_set
          /\ n_on_disk' = n_on_disk
          /\ LastCall(split_log').read = None
          /\ LastCall(split_log').loaded = << >>]_vars

\* C16 witness: a later call was made after a file of a set was deleted and a file of
\* the writer was added, the on-disk count differing from the cached one.
C16_Witness ==
    /\ pc = "done"
    /\ Len(split_log) >= 2
    /\ \E f \in Range(split_idx.train) : f \notin DOMAIN storage
    /\ \E f \in DOMAIN storage : Origin(storage[f]) = "ext"
    /\ GetTrajectoryCount(storage) # n_on_disk[1]

(***************************************************************************)
(* Construction with a windowing configuration that violates               *)
(* t_skip + 1 >= t_history, in each of the three acquisition modes.        *)
(***************************************************************************)
\* t_skip = 0, t_history = 2, t_prediction = 1
ShortSkipWindow == <<0, 2, 1>>

WindowConfigs ==
    {cfg \in ConfigSet({None, Some([n_pop |-> MaxPop - 1, traj_len |-> 2])},
                       {None, Some("import")}, {None, Some(1)},
                       {DefaultFractions}, {ShortSkipWindow}) : NumSources(cfg) = 1}

InitWindow ==
    InitManager(WindowConfigs, DenseDirs("init", 2, MaxFiles - 1),
                DenseDirs("src", 2, MaxFiles - 1), {NoWriter, IdleWriter(2)})

NextWindow ==
    \/ CtorDispatch
    \/ GenStart
    \/ GenLoop
    \/ GenCount
    \/ GenSave
    \/ ImportStep
    \/ WaitFirst
    \/ WaitLoop
    \/ CtorRecord
    \/ GetTrajectorySplit
    \/ WriterPick
    \/ WriterSave

SpecWindow == InitWindow /\ [][NextWindow]_vars

\* the manager has generated no batch, written and replaced no file, and polled nothing
NoAcquisitionStep ==
    /\ gen.traj_i = << >>
    /\ wait_n = None
    /\ \A f \in DOMAIN storage : Origin(storage[f]) \in {"init", "ext"}
    /\ \A f \in DOMAIN storage0 : f \in DOMAIN storage /\ storage[f] = storage0[f]

\* C17: with t_skip + 1 < t_history construction fails with a precondition violation
\* in every acquisition mode, the failure is raised before any acquisition step
\* (generation and writing, import replacement, the dynamic wait), and construction
\* never completes.
C17_WindowFailsFast ==
    ~SliceDatasetInitOK(config.t_skip, config.t_history) =>
        /\ pc # "done"
        /\ error = "AssertionError" => NoAcquisitionStep

(***************************************************************************)
(* Claims about a failing simulation (checked under SpecGen).              *)
(***************************************************************************)
\* C18: a simulation call that raises during generation propagates out of generate and
\* of the constructor: the step that raises writes no file and leaves every file on
\* disk as it is, the manager writes no file afterwards (only the external writer
\* does), n_on_disk is not recorded and no split is computed.
C18_SimulationErrorPropagates ==
    /\ [](error = "SimulationError" =>
            /\ pc = "raised"
            /\ n_on_disk = None
            /\ train_set = None /\ valid_set = None /\ test_set = None
            /\ split_log = << >>)
    /\ [][error' = "SimulationError" /\ error # "SimulationError" =>
            /\ pc = "gen_loop"
            /\ storage' = storage
            /\ gen' = gen]_vars
    /\ [][error = "SimulationError" /\ storage' # storage =>
            /\ writer.pc = "save"
            /\ storage' = TorchSave(storage, writer.num, Traj("ext", writer.len))]_vars

\* C18 witness: a simulation failed in a later batch: files of an earlier batch are on
\* disk and the population size is not reached.
C18_Witness ==
    /\ error = "SimulationError"
    /\ pc = "raised"
    /\ gen.traj_i # << >>
    /\ \E f \in DOMAIN storage : Origin(storage[f]) = "gen"
    /\ GetTrajectoryCount(storage) < config.generation_config[1].n_pop

(***************************************************************************)
(* Construction in dynamic mode with and without an external writer, the   *)
(* constructor's thread being scheduled for ever.                          *)
(***************************************************************************)
WaitConfigs ==
    ConfigSet({None}, {None}, {Some(d) : d \in 0..MaxDyn}, {DefaultFractions},
              {DefaultWindow})

InitWait ==
    InitManager(WaitConfigs, DenseDirs("init", 2, MaxFiles - 1), {EmptyDir},
                {NoWriter, IdleWriter(2)})

\* the steps of the constructor in dynamic mode, up to its split call
ConstructStep ==
    \/ CtorDispatch
    \/ WaitFirst
    \/ WaitLoop
    \/ CtorRecord

\* the constructor's get_trajectory_split call (line 162) ends: it returns or raises.
\* At pc = "split" the step GetTrajectorySplit is always possible and is the only step
\* that changes pc.
SplitCallEnds == pc = "split" /\ pc' \in {"done", "raised"}

NextWait ==
    \/ CtorDispatch
    \/ WaitFirst
    \/ WaitLoop
    \/ CtorRecord
    \/ GetTrajectorySplit
    \/ WriterPick
    \/ WriterSave

\* the constructor keeps running; nothing is assumed about the writer
FairSpecWait ==
    InitWait /\ [][NextWait]_vars /\ WF_vars(ConstructStep) /\ WF_pc(SplitCallEnds)

\* the on-disk count is at least the threshold
ThresholdReached == GetTrajectoryCount(storage) >= config.dynamic_updates_from[1]

\* the constructor has neither returned nor raised
StillConstructing == pc \in {"init"} \cup WaitPcs /\ error = "none"

\* C19: in dynamic mode, if the writer eventually brings the on-disk count to the
\* threshold (nothing being deleted), construction eventually leaves the polling loop
\* and completes with an initial split; if the count stays below the threshold for
\* ever, construction never returns and never raises.
C19_WaitLiveness ==
    /\ (<>ThresholdReached) =>
          <>(pc = "done" /\ n_on_disk # None /\ train_set # None /\ valid_set # None
               /\ test_set # None)
    /\ ([]~ThresholdReached) => []StillConstructing

\* C19 witness: the constructor has polled a count below the threshold, the writer has
\* then reached the threshold, and construction has completed with its split.
C19_Witness ==
    /\ pc = "done"
    /\ Len(split_log) = 1
    /\ GetTrajectoryCount(storage0) < config.dynamic_updates_from[1]
    /\ \E f \in DOMAIN storage : Origin(storage[f]) = "ext"
    /\ wait_n[1] >= config.dynamic_updates_from[1]
    /\ train_set # None /\ valid_set # None /\ test_set # None

(***************************************************************************)
(* Claims about trajectories without a valid anchor (checked under         *)
(* SpecSlicer).                                                            *)
(***************************************************************************)
\* the trajectory the step hands to add_sliced_trajectory
AppendedNow == appended'[Len(appended')]

\* C20 as claimed: appending a trajectory of length L <= t_skip + t_prediction
\* (L < t_skip + t_prediction included) raises no error and leaves the slice lists
\* unchanged.
C20_NoAnchorSilent ==
    [][appended' # appended
         /\ Len(AppendedNow) <= dataset.t_skip + dataset.t_prediction =>
            /\ slicer_err' = "none"
            /\ dataset'.in_slices = dataset.in_slices
            /\ dataset'.out_slices = dataset.out_slices]_vars

\* C20 amended: appending a trajectory of length L = t_skip + t_prediction raises no
\* error and leaves the slice lists unchanged; with L < t_skip + t_prediction the call
\* fails with an AssertionError, the slice lists unchanged.
C20_NoAnchorAtBoundary ==
    [][appended' # appended =>
          /\ Len(AppendedNow) = dataset.t_skip + dataset.t_prediction =>
                /\ slicer_err' = "none"
                /\ dataset'.in_slices = dataset.in_slices
                /\ dataset'.out_slices = dataset.out_slices
          /\ Len(AppendedNow) < dataset.t_skip + dataset.t_prediction =>
                /\ slicer_err' = "AssertionError"
                /\ dataset'.in_slices = dataset.in_slices
                /\ dataset'.out_slices = dataset.out_slices]_vars

\* C20 witness: after a trajectory that gave slices, a trajectory of exactly
\* t_skip + t_prediction states was appended without error and without a new slice.
C20_Witness ==
    /\ Len(appended) = 2
    /\ slicer_err = "none"
    /\ Len(appended[2]) = dataset.t_skip + dataset.t_prediction
    /\ SliceLen(dataset) >= 1
    /\ SliceLen(dataset) = Len(SlicesOf(dataset, appended[1]))

(***************************************************************************)
(* generate alone, for population sizes below and above the nominal batch  *)
(* size, on a dense store, with and without an external writer.  The       *)
(* specification ends where generate returns.                              *)
(***************************************************************************)
\* population sizes that need no, one, two and three batches
BatchPops == (0..MaxPop) \cup {NominalBatch + 1, 2 * NominalBatch + 1}

BatchConfigs ==
    ConfigSet({Some([n_pop |-> n, traj_len |-> 2]) : n \in BatchPops}, {None}, {None},
              {DefaultFractions}, {DefaultWindow})

InitBatch ==
    InitManager(BatchConfigs, DenseDirs("init", 2, MaxFiles - 1), {EmptyDir},
                {NoWriter, IdleWriter(2)})

NextBatch ==
    \/ CtorDispatch
    \/ GenStart
    \/ GenLoop
    \/ GenCount
    \/ GenSave
    \/ WriterPick
    \/ WriterSave

SpecBatch == InitBatch /\ [][NextBatch]_vars

(***************************************************************************)
(* Claims about the batches of generate (checked under SpecBatch).         *)
(***************************************************************************)
\* generate runs alone on a store that holds at most n_pop files
AloneBelowPop ==
    /\ writer = NoWriter
    /\ GetTrajectoryCount(storage0) <= config.generation_config[1].n_pop

\* C21: from a dense store {0..c-1} with c <= n_pop and no other writer, every file
\* generate writes goes to the index equal to the on-disk count at the moment of the
\* write (no file is overwritten, no gap is created), and generate ends with the store
\* holding exactly the files 0..n_pop-1.
C21_NextAvailableIndex ==
    /\ [](AloneBelowPop => IsDense(storage))
    /\ [](AloneBelowPop /\ pc = "record" =>
            DOMAIN storage = 0..(config.generation_config[1].n_pop - 1))
    /\ [][AloneBelowPop /\ storage' # storage =>
            /\ GetTrajectoryCount(storage) \notin DOMAIN storage
            /\ DOMAIN storage' = (DOMAIN storage) \cup {GetTrajectoryCount(storage)}
            /\ Origin(storage'[GetTrajectoryCount(storage)]) = "gen"
            /\ \A f \in DOMAIN storage : storage'[f] = storage[f]]_vars

\* C21 witness: generate has returned after three batches on top of an initial file.
C21_Witness ==
    /\ pc = "record"
    /\ writer = NoWriter
    /\ config.generation_config[1].n_pop > 2 * NominalBatch
    /\ GetTrajectoryCount(storage0) >= 1
    /\ GetTrajectoryCount(storage) = config.generation_config[1].n_pop
    /\ Origin(storage[config.generation_config[1].n_pop - 1]) = "gen"

\* C22: every iteration of generate writes at most 30 files and at most n_pop minus the
\* count re-read in that iteration, n_set never increases from one iteration to the
\* next, and no iteration indexes past the end of the list it generated.
C22_BatchCap ==
    /\ [](pc = "gen_save" =>
            /\ gen.i <= Max(0, gen.n_set)
            /\ gen.n_set <= NominalBatch
            /\ gen.n_set <= config.generation_config[1].n_pop - gen.n_generated
            /\ gen.n_set <= Len(gen.traj_i)
            /\ gen.i < gen.n_set => gen.i < Len(gen.traj_i))
    /\ [](error # "IndexError")
    /\ [](pc \in GenPcs \ {"generate"} => gen.n_set <= NominalBatch)
    /\ [][(pc \in GenPcs \ {"generate"}) => gen'.n_set <= gen.n_set]_vars
    /\ [][pc = "gen_save" /\ storage' # storage /\ gen' # gen =>
            /\ gen'.i = gen.i + 1
            /\ gen'.i <= NominalBatch
            /\ gen'.i <= config.generation_config[1].n_pop - gen.n_generated]_vars

\* C22 witness: a later iteration wrote a batch smaller than the nominal size, capped
\* by what was missing.
C22_Witness ==
    /\ pc = "gen_save"
    /\ gen.n_generated >= NominalBatch
    /\ gen.n_set >= 1
    /\ gen.n_set < NominalBatch
    /\ gen.n_set = config.generation_config[1].n_pop - gen.n_generated
    /\ gen.i = gen.n_set
    /\ Len(gen.traj_i) > gen.n_set

(***************************************************************************)
(* C23: the naming race.  The generate loop saves under n_generated + i    *)
(* and the external writer under the count it read in append_by_extension; *)
(* neither looks at the directory again before torch.save.                 *)
(***************************************************************************)
\* the name a step saves under: the writer's, or the generate loop's
SavedName == IF writer' # writer THEN writer.num ELSE gen.n_generated + gen.i

\* the trajectory a step saves
SavedTraj == IF writer' # writer THEN Traj("ext", writer.len) ELSE gen.traj_i[gen.i + 1]

\* a step that completes a torch.save, by the writer or by the generate loop
SaveCompletes ==
    \/ writer.pc = "save" /\ writer'.pc = "idle"
    \/ pc = "gen_save" /\ gen'.i = gen.i + 1

\* C23: a save under a name that is taken by now (the other writer saved
\* under it after this one read the count) is silent and the last writer
\* wins: the file holds the trajectory of the one that saved last, the
\* earlier trajectory is lost, every other file is untouched, the number of
\* files stays the same (so the two saves raised it by one only), and the
\* step reports no error.
C23_NamingRace ==
    [][SaveCompletes =>
          /\ storage'[SavedName] = SavedTraj
          /\ \A f \in DOMAIN storage \ {SavedName} :
                f \in DOMAIN storage' /\ storage'[f] = storage[f]
          /\ SavedName \in DOMAIN storage =>
                /\ DOMAIN storage' = DOMAIN storage
                /\ GetTrajectoryCount(storage') = GetTrajectoryCount(storage)
                /\ error' = error
                /\ pc' = "raised" <=> pc = "raised"]_vars

\* the race has happened on a dense store: generate read the count c, the
\* writer picked c, generate saved c and then the writer saved c; after the
\* two saves there is one file more, it holds the writer's trajectory, and
\* nothing was reported
C23_Witness ==
    /\ pc = "gen_save"
    /\ error = "none"
    /\ IsDense(storage0)
    /\ gen.n_generated = GetTrajectoryCount(storage0)
    /\ gen.i = 1
    /\ writer.pc = "idle"
    /\ writer.num = gen.n_generated
    /\ GetTrajectoryCount(storage) = GetTrajectoryCount(storage0) + 1
    /\ Origin(storage[writer.num]) = "ext"

(***************************************************************************)
(* C24: the sizes of the initial split (lines 251-257)                     *)
(***************************************************************************)
\* C24: the initial split never over-allocates: for every count N on disk
\* and fractions in [0, 1] the sizes the first get_trajectory_split computes
\* are N_train >= 0, N_valid >= 0, N_test >= 0 with
\* N_train + N_valid + N_test <= N.
C24_NoOverAllocation ==
    (/\ pc = "done"
     /\ config.train_fraction \in 0..FracDen
     /\ config.valid_fraction \in 0..FracDen
     /\ config.test_fraction \in 0..FracDen) =>
        LET N == n_on_disk[1]
            sz == InitialSplitSizes(N, config)
        IN  /\ sz.N_train >= 0
            /\ sz.N_valid >= 0
            /\ sz.N_test >= 0
            /\ sz.N_tot <= N

(***************************************************************************)
(* Dynamic mode with several windowings and trajectories of two lengths:   *)
(* the files found at construction have three states, the files the        *)
(* writer appends have four.                                               *)
(***************************************************************************)
\* (t_skip, t_history, t_prediction); the last one asks for more states than
\* the three of the initial files
SliceWindows == {DefaultWindow, <<1, 2, 1>>, <<1, 1, 2>>, <<2, 1, 2>>}

\* everything to train; the default fractions; nothing to train
SliceFractions ==
    {<<FracDen, 0, 0>>, DefaultFractions, <<0, FracDen \div 2, FracDen - FracDen \div 2>>}

SliceConfigs ==
    ConfigSet({None}, {None}, {Some(d) : d \in 1..MaxDyn}, SliceFractions, SliceWindows)

InitSlices ==
    InitManager(SliceConfigs, DenseDirs("init", 3, MaxFiles - 1), {EmptyDir},
                {IdleWriter(4)})

NextSlices ==
    \/ CtorDispatch
    \/ WaitFirst
    \/ WaitLoop
    \/ CtorRecord
    \/ GetTrajectorySplit
    \/ WriterPick
    \/ WriterSave

SpecSlices == InitSlices /\ [][NextSlices]_vars

\* every trajectory on disk has at least t_skip + t_prediction states
AllLongEnough ==
    \A f \in DOMAIN storage : Len(storage[f]) >= config.t_skip + config.t_prediction

\* the sum over the trajectories of L - t_prediction - t_skip
RECURSIVE SumOfAnchors(_, _)
SumOfAnchors(ds, trajs) ==
    IF trajs = << >> THEN 0
    ELSE (Len(Head(trajs)) - ds.t_prediction - ds.t_skip) + SumOfAnchors(ds, Tail(trajs))

\* the slice dataset of a set is the slicing of the set's trajectory list
SlicedInOrder(set) ==
    set # None =>
        LET ds == set[1].slices
        IN  /\ ds.t_skip = config.t_skip
            /\ ds.t_history = config.t_history
            /\ ds.t_prediction = config.t_prediction
            /\ Len(ds.in_slices) = Len(ds.out_slices)
            /\ [k \in 1..SliceLen(ds) |-> SliceGetItem(ds, k - 1)]
                 = ConcatSlices(ds, set[1].trajectories)
            /\ SliceLen(ds) = SumOfAnchors(ds, set[1].trajectories)

\* C25: when every trajectory on disk has at least t_skip + t_prediction
\* states, the slice dataset of each of the train, valid and test sets is
\* exactly the slicing of that set's trajectory list, trajectory by trajectory
\* in list order, with the windowing of the configuration, and its length is
\* the sum over the set's trajectories of L - t_prediction - t_skip.
C25_SlicesMatchTrajectories ==
    AllLongEnough =>
        /\ SlicedInOrder(train_set)
        /\ SlicedInOrder(valid_set)
        /\ SlicedInOrder(test_set)

\* C25 witness: a growth call has extended a train set built at construction;
\* it holds trajectories of three and of four states and, with t_skip = 1,
\* t_history = 2 and t_prediction = 1, one slice of each short trajectory and
\* two of each long one
C25_Witness ==
    /\ pc = "done"
    /\ AllLongEnough
    /\ config.t_history = 2
    /\ LastCall(split_log).kind = "growth"
    /\ LastCall(split_log).loaded # << >>
    /\ \E j, k \in 1..Len(train_set[1].trajectories) :
          /\ j < k
          /\ Len(train_set[1].trajectories[j]) = 3
          /\ Len(train_set[1].trajectories[k]) = 4
    /\ SliceLen(train_set[1].slices) >= 3

(***************************************************************************)
(* C26: the cached count against the data directory, in dynamic mode with  *)
(* a writer that appends to a dense store.                                 *)
(***************************************************************************)
\* the file indices the three sets were loaded from
SplitIndices == Range(split_idx.train) \cup Range(split_idx.valid) \cup Range(split_idx.test)

\* the file indices the get_trajectory_split calls so far have loaded
LoadedIndices == UNION {Range(split_log[k].loaded) : k \in 1..Len(split_log)}

\* C26: in dynamic mode with an append-only dense writer, once the constructor
\* has recorded n_on_disk, the cached n_on_disk never exceeds the number of
\* files on disk and never decreases from one call to the next, every index
\* of the split is below n_on_disk, and every index the manager loads names
\* a file that exists (no load fails).
C26_CachedCountSound ==
    /\ [](n_on_disk # None =>
            /\ n_on_disk[1] <= GetTrajectoryCount(storage)
            /\ \A idx \in SplitIndices : idx >= 0 /\ idx < n_on_disk[1]
            /\ LoadedIndices \subseteq DOMAIN storage
            /\ SplitIndices \subseteq LoadedIndices)
    /\ [](SplitIndices # {} => n_on_disk # None)
    /\ [](error # "FileNotFoundError")
    /\ [][n_on_disk # None => n_on_disk' # None /\ n_on_disk'[1] >= n_on_disk[1]]_vars

\* C26 witness: a growth call has loaded new files and raised n_on_disk, and
\* the writer has appended again since, so the cached count is behind
C26_Witness ==
    /\ pc = "done"
    /\ LastCall(split_log).kind = "growth"
    /\ LastCall(split_log).loaded # << >>
    /\ n_on_disk[1] > GetTrajectoryCount(storage0)
    /\ n_on_disk[1] < GetTrajectoryCount(storage)
    /\ SplitIndices # {}

====
